---- MODULE Spec2Model ----
(***************************************************************************)
(* Weighted clustering and preference-scoring engine of the Vietnam travel *)
(* recommendation system: WeightedKMeans (models/clustering.py) and        *)
(* RecommendationService (services/recommendation_service.py).             *)
(*                                                                         *)
(* Representation.                                                         *)
(*  - Real numbers (pandas/numpy floats) are fixed-point integers in units *)
(*    of 1/Scale: 22.0 is 22 * Scale, the weight 1.5 is (3 * Scale) \div 2.*)
(*  - Python strings that are only compared for equality are TLA+ strings, *)
(*    transliterated to ASCII ("mat" for "mát", "it" for "ít", "the thao"  *)
(*    for "thể thao").  Terrain strings, on which the code does substring  *)
(*    tests, are sequences of character codes.                             *)
(*  - A falsy Python value (None, "", 0) of a preference field is "" for   *)
(*    strings, <<>> for terrain and 0 for the month.                       *)
(*  - A DataFrame is [exists, columns, rows]; rows keep their order.       *)
(***************************************************************************)
EXTENDS Integers, Sequences, FiniteSets, TLC

VARIABLES
    csv,               \* data\df_weather.csv on disk
    artifact,          \* data\weather_clusters.pkl on disk
    df,                \* RecommendationService.df
    model_trained,     \* RecommendationService.model_trained
    clustering_model,  \* RecommendationService.clustering_model (WeightedKMeans)
    call,              \* the last operation invoked and its arguments
    ret,               \* what that operation returned (or that it raised)
    saver,             \* a save_model in progress (SpecSave)
    loader             \* a load_model in progress in another process (SpecSave)

vars == <<csv, artifact, df, model_trained, clustering_model, call, ret, saver, loader>>

\* ------------------------------------------------------------------ bounds
\* fixed-point resolution of the reals
Scale == 100
\* WeightedKMeans(n_clusters=...): 8 in the service, scaled down here
NClusters == 2

\* ------------------------------------------------------- program constants
TopK == 8
ShortList == 5
TempMat == 22
TempOnHoa == 26
TempNong == 32
TempSpan == 10
RainBonus == 5
TerrainBonus == 3
RainLow == 2
RainHigh == 10
CoolBelow == 20
MildBelow == 28
LowRainBelow == 2
ModerateRainBelow == 10

\* ---------------------------------------------------------------- helpers
Abs(x) == IF x < 0 THEN -x ELSE x
Max(a, b) == IF a >= b THEN a ELSE b
Min(a, b) == IF a <= b THEN a ELSE b
Range(s) == {s[i] : i \in DOMAIN s}

RECURSIVE Tabulate(_, _)
\* the sequence <<F(1), ..., F(n)>>
Tabulate(F(_), n) == IF n = 0 THEN <<>> ELSE Append(Tabulate(F, n - 1), F(n))

RECURSIVE SumOver(_, _)
\* F(1) + ... + F(n)
SumOver(F(_), n) == IF n = 0 THEN 0 ELSE SumOver(F, n - 1) + F(n)

RECURSIVE SqrtBetween(_, _, _)
\* the largest r in lo..hi with r * r <= n
SqrtBetween(n, lo, hi) ==
    IF lo >= hi THEN lo
    ELSE LET mid == (lo + hi + 1) \div 2
         IN IF mid * mid <= n THEN SqrtBetween(n, mid, hi)
            ELSE SqrtBetween(n, lo, mid - 1)

\* np.sqrt on fixed-point values (n is in units of 1/Scale^2)
ISqrt(n) == SqrtBetween(n, 0, 40000)

\* the feature columns, in the order of feature_weights.keys()
FeatureNames == <<"day.avgtemp_c", "day.maxwind_kph", "day.totalprecip_mm",
                  "day.avgvis_km", "day.avghumidity", "day.uv">>
NF == Len(FeatureNames)
FTemp == 1
FWind == 2
FPrecip == 3
FUv == 6

W10 == Scale
W15 == (3 * Scale) \div 2
W20 == 2 * Scale

\* WeightedKMeans.__init__: every weight 1.0
DefaultWeights == Tabulate(LAMBDA i : W10, NF)

\* ------------------------------------------------------------- data frames
NoTable == [exists |-> FALSE, columns |-> {}, rows |-> <<>>]
NotFittedScaler == [fitted |-> FALSE, mean_ |-> <<>>, scale_ |-> <<>>]
NotFittedKMeans == [fitted |-> FALSE, cluster_centers_ |-> <<>>, labels_ |-> <<>>]

\* an observation row of the CSV: loc is the location identity
\* <<name, region, terrain, lat, lon>>, feat the six metrics
Obs(name, terrain, month, temp, precip) ==
    [loc |-> <<name, 1, terrain, 10 + name, 100 + name>>, month |-> month,
     feat |-> <<temp * Scale, 12 * Scale, precip * Scale, 10 * Scale, 80 * Scale, 7 * Scale>>]

RECURSIVE SeqLess(_, _)
\* lexicographic order on character sequences (Python str comparison)
SeqLess(a, b) ==
    IF a = <<>> THEN b # <<>>
    ELSE IF b = <<>> THEN FALSE
    ELSE IF Head(a) # Head(b) THEN Head(a) < Head(b)
    ELSE SeqLess(Tail(a), Tail(b))

\* the order groupby sorts its keys in
LocLess(a, b) ==
    \/ a[1] < b[1]
    \/ a[1] = b[1] /\ a[2] < b[2]
    \/ a[1] = b[1] /\ a[2] = b[2] /\ SeqLess(a[3], b[3])
    \/ a[1] = b[1] /\ a[2] = b[2] /\ a[3] = b[3] /\ a[4] < b[4]
    \/ a[1] = b[1] /\ a[2] = b[2] /\ a[3] = b[3] /\ a[4] = b[4] /\ a[5] < b[5]

RECURSIVE SortLocs(_)
SortLocs(S) ==
    IF S = {} THEN <<>>
    ELSE LET m == CHOOSE x \in S : \A y \in S \ {x} : LocLess(x, y)
         IN <<m>> \o SortLocs(S \ {m})

\* a mean that divides by the number of all observations
MeanOverAll(rows, loc, i) ==
    SumOver(LAMBDA j : IF rows[j].loc = loc THEN rows[j].feat[i] ELSE 0, Len(rows))
        \div Len(rows)

\* the mean of feature i over the observations of one location
MeanOf(rows, loc, i) ==
    SumOver(LAMBDA j : IF rows[j].loc = loc THEN rows[j].feat[i] ELSE 0, Len(rows))
        \div Cardinality({j \in DOMAIN rows : rows[j].loc = loc})

\* WeightedKMeans.prepare_data: one row per distinct location identity, sorted
\* by the group keys, each metric the mean over the location's observations
prepare_data(rows) ==
    LET locs == SortLocs({rows[j].loc : j \in DOMAIN rows})
    IN [exists |-> TRUE,
        columns |-> {"location", "features"},
        rows |-> Tabulate(LAMBDA n :
                     [loc |-> locs[n],
                      feat |-> Tabulate(LAMBDA i : MeanOf(rows, locs[n], i), NF),
                      cluster |-> -1,
                      score |-> -1], Len(locs))]

\* location_data[feature_columns].values
FeatureMatrix(table) == Tabulate(LAMBDA n : table.rows[n].feat, Len(table.rows))

\* ------------------------------------------------------------ the scaler
ColumnMean(X, i) == SumOver(LAMBDA n : X[n][i], Len(X)) \div Len(X)
VarAbout(X, i, m) == SumOver(LAMBDA n : (X[n][i] - m) * (X[n][i] - m), Len(X)) \div Len(X)
ColumnVar(X, i) == VarAbout(X, i, ColumnMean(X, i))

\* sklearn's _handle_zeros_in_scale: a zero deviation becomes 1.0
HandleZeros(s) == IF s = 0 THEN Scale ELSE s

\* StandardScaler.fit: per-feature mean and standard deviation (1.0 for a
\* constant feature)
ScalerFit(X) ==
    [fitted |-> TRUE,
     mean_ |-> Tabulate(LAMBDA i : ColumnMean(X, i), NF),
     scale_ |-> Tabulate(LAMBDA i : HandleZeros(ISqrt(ColumnVar(X, i))), NF)]

\* StandardScaler.transform
ScalerTransform(sc, X) ==
    Tabulate(LAMBDA n :
        Tabulate(LAMBDA i : ((X[n][i] - sc.mean_[i]) * Scale) \div sc.scale_[i], NF), Len(X))

\* WeightedKMeans.apply_weights
apply_weights(weights, X) ==
    Tabulate(LAMBDA n : Tabulate(LAMBDA i : (X[n][i] * weights[i]) \div Scale, NF), Len(X))

\* -------------------------------------------------------------- KMeans
Dist2(p, c) == SumOver(LAMBDA i : (p[i] - c[i]) * (p[i] - c[i]), NF)

Members(lab, j) == {n \in DOMAIN lab : lab[n] = j}

\* the centre of cluster j under labelling lab: the mean of its members (an
\* empty cluster keeps the first point, as k-means++ seeds centres on points)
CenterOf(X, lab, j) ==
    LET M == Members(lab, j)
    IN IF M = {} THEN X[1]
       ELSE Tabulate(LAMBDA i :
                SumOver(LAMBDA n : IF n \in M THEN X[n][i] ELSE 0, Len(X)) \div Cardinality(M), NF)

CentersOf(X, lab) == Tabulate(LAMBDA j : CenterOf(X, lab, j - 1), NClusters)

InertiaAbout(X, lab, C) == SumOver(LAMBDA n : Dist2(X[n], C[lab[n] + 1]), Len(X))
Inertia(X, lab) == InertiaAbout(X, lab, CentersOf(X, lab))

\* the labellings KMeans chooses among: it uses as many clusters as there are
\* distinct points, at most n_clusters, numbered from 0
Labellings(X, m) == {lab \in [DOMAIN X -> 0..(NClusters - 1)] : Range(lab) = 0..(m - 1)}

LeastCost(cost) == CHOOSE c \in cost : \A c2 \in cost : c[1] <= c2[1]

BestLabels(X) ==
    LeastCost({<<Inertia(X, lab), lab>> :
                  lab \in Labellings(X, Min(NClusters, Cardinality(Range(X))))})[2]

KMeansResult(X, best) ==
    [fitted |-> TRUE, cluster_centers_ |-> CentersOf(X, best), labels_ |-> best]

\* KMeans.fit on n_samples >= n_clusters: the labelling of least inertia
\* (the n_init restarts keep the lowest-inertia result)
KMeansFit(X) == KMeansResult(X, BestLabels(X))

\* np.argmin: the first index of the least value, counted from 0
ArgMin(d) ==
    (CHOOSE j \in DOMAIN d : (\A j2 \in DOMAIN d : d[j] <= d[j2])
                              /\ (\A j2 \in 1..(j - 1) : d[j2] > d[j])) - 1

\* KMeans.predict: the nearest centre, the first one on a tie
KMeansPredict(km, X) ==
    Tabulate(LAMBDA n :
        ArgMin(Tabulate(LAMBDA j : Dist2(X[n], km.cluster_centers_[j]), NClusters)), Len(X))

\* ------------------------------------------------------- WeightedKMeans
\* WeightedKMeans.__init__ (location_data is not assigned there)
NewModel ==
    [feature_weights |-> DefaultWeights,
     scaler |-> NotFittedScaler,
     kmeans |-> NotFittedKMeans,
     location_data |-> NoTable,
     cluster_labels_ |-> <<>>,
     cluster_centers_ |-> <<>>]

\* set_weights that only ever raises a weight: what an earlier request
\* raised stays raised
set_weights_keep_raised(m, weights_dict) ==
    [m EXCEPT !.feature_weights =
        Tabulate(LAMBDA i : IF i \in DOMAIN weights_dict
                            THEN Max(m.feature_weights[i], weights_dict[i])
                            ELSE m.feature_weights[i], NF)]

\* WeightedKMeans.set_weights: overwrite the weight of every known feature
\* named in weights_dict (given here as a function on feature positions)
set_weights(m, weights_dict) ==
    [m EXCEPT !.feature_weights =
        Tabulate(LAMBDA i : IF i \in DOMAIN weights_dict THEN weights_dict[i]
                            ELSE m.feature_weights[i], NF)]

\* location_data['cluster'] = labels
WithClusters(table, labels) ==
    [table EXCEPT !.columns = @ \cup {"cluster"},
                  !.rows = Tabulate(LAMBDA n : [table.rows[n] EXCEPT !.cluster = labels[n]],
                                    Len(table.rows))]

\* WeightedKMeans.fit, lines 71-79, once KMeans has fitted km
FitClustered(m, table, sc, km) ==
    [model |-> [m EXCEPT !.scaler = sc,
                         !.kmeans = km,
                         !.cluster_labels_ = km.labels_,
                         !.cluster_centers_ = km.cluster_centers_,
                         !.location_data = WithClusters(table, km.labels_)],
     raised |-> FALSE]

\* WeightedKMeans.fit, lines 68-79, once the scaler has fitted sc: KMeans
\* raises on fewer samples than clusters, before it changes anything
FitScaled(m, table, X, sc) ==
    IF Len(X) < NClusters
    THEN [model |-> [m EXCEPT !.location_data = table, !.scaler = sc], raised |-> TRUE]
    ELSE FitClustered(m, table, sc,
                      KMeansFit(apply_weights(m.feature_weights, ScalerTransform(sc, X))))

\* WeightedKMeans.fit, lines 58-79, on the aggregated table: the scaler
\* raises on an empty matrix
FitTable(m, table, X) ==
    IF Len(X) = 0
    THEN [model |-> [m EXCEPT !.location_data = table], raised |-> TRUE]
    ELSE FitScaled(m, table, X, ScalerFit(X))

FitPrepared(m, table) == FitTable(m, table, FeatureMatrix(table))

\* a fit that starts from the default weights
fit_from_default_weights(m, rows) ==
    FitPrepared([m EXCEPT !.feature_weights = DefaultWeights], prepare_data(rows))

\* WeightedKMeans.fit, statement by statement: [model, raised].  What was
\* assigned before an exception stays assigned.
fit(m, rows) == FitPrepared(m, prepare_data(rows))

PredictMatrix(m, X) ==
    IF ~m.scaler.fitted \/ ~m.kmeans.fitted \/ Len(X) = 0
    THEN [labels |-> <<>>, raised |-> TRUE]
    ELSE [labels |-> KMeansPredict(m.kmeans,
                         apply_weights(m.feature_weights, ScalerTransform(m.scaler, X))),
          raised |-> FALSE]

\* WeightedKMeans.predict: [labels, raised]; an unfitted scaler raises
predict(m, rows) == PredictMatrix(m, FeatureMatrix(prepare_data(rows)))

\* the dictionary save_model pickles
ModelData(m) ==
    [scaler |-> m.scaler,
     kmeans |-> m.kmeans,
     feature_weights |-> m.feature_weights,
     location_data |-> m.location_data,
     cluster_labels_ |-> m.cluster_labels_,
     cluster_centers_ |-> m.cluster_centers_]

NoData == ModelData(NewModel)
AbsentFile == [state |-> "absent", data |-> NoData]
CorruptFile == [state |-> "corrupt", data |-> NoData]
EmptyFile == [state |-> "partial", data |-> NoData]
CompleteFile(m) == [state |-> "complete", data |-> ModelData(m)]

\* WeightedKMeans.save_model, as one step (SpecSave splits it)
save_model(m) == CompleteFile(m)

\* load_model that does not restore the weights
load_model_keep_weights(m, file) ==
    IF file.state = "absent" THEN [model |-> m, value |-> FALSE, raised |-> FALSE]
    ELSE IF file.state # "complete" THEN [model |-> m, value |-> FALSE, raised |-> TRUE]
    ELSE [model |-> [m EXCEPT !.scaler = file.data.scaler,
                              !.kmeans = file.data.kmeans,
                              !.location_data = file.data.location_data,
                              !.cluster_labels_ = file.data.cluster_labels_,
                              !.cluster_centers_ = file.data.cluster_centers_],
          value |-> TRUE, raised |-> FALSE]

\* WeightedKMeans.load_model: [model, value, raised].  A missing file gives
\* False; pickle.load raises on a file that does not deserialize, and nothing
\* in load_model catches it.
load_model(m, file) ==
    IF file.state = "absent" THEN [model |-> m, value |-> FALSE, raised |-> FALSE]
    ELSE IF file.state # "complete" THEN [model |-> m, value |-> FALSE, raised |-> TRUE]
    ELSE [model |-> [m EXCEPT !.scaler = file.data.scaler,
                              !.kmeans = file.data.kmeans,
                              !.feature_weights = file.data.feature_weights,
                              !.location_data = file.data.location_data,
                              !.cluster_labels_ = file.data.cluster_labels_,
                              !.cluster_centers_ = file.data.cluster_centers_],
          value |-> TRUE, raised |-> FALSE]

\* ------------------------------------------------- the preference scorer
\* Python's `a in b` on strings
IsSubstring(a, b) ==
    \E i \in 0..(Len(b) - Len(a)) : SubSeq(b, i + 1, i + Len(a)) = a

\* ScoreOf with the lower edge of the medium band excluded (2 < p < 10)
ScoreOfOpenBand(row, np) ==
    LET temp == IF "temperature" \in np.keys
                THEN Max(0, TempSpan * Scale - Abs(row.feat[FTemp] - np.temperature * Scale))
                ELSE 0
        p == row.feat[FPrecip]
        rain == IF "rain_tolerance" \in np.keys
                THEN IF np.rain_tolerance = "low" /\ p < RainLow * Scale THEN RainBonus * Scale
                     ELSE IF np.rain_tolerance = "medium" /\ RainLow * Scale < p /\ p < RainHigh * Scale
                          THEN RainBonus * Scale
                     ELSE IF np.rain_tolerance = "high" /\ p >= RainHigh * Scale THEN RainBonus * Scale
                     ELSE 0
                ELSE 0
        terr == IF "terrain" \in np.keys /\ IsSubstring(np.terrain, row.loc[3])
                THEN TerrainBonus * Scale ELSE 0
    IN temp + rain + terr

\* the score find_similar_locations gives one row; np is the numeric
\* preference record: keys is the set of keys present in the dict
ScoreOf(row, np) ==
    LET temp == IF "temperature" \in np.keys
                THEN Max(0, TempSpan * Scale - Abs(row.feat[FTemp] - np.temperature * Scale))
                ELSE 0
        p == row.feat[FPrecip]
        rain == IF "rain_tolerance" \in np.keys
                THEN IF np.rain_tolerance = "low" /\ p < RainLow * Scale THEN RainBonus * Scale
                     ELSE IF np.rain_tolerance = "medium" /\ RainLow * Scale <= p /\ p < RainHigh * Scale
                          THEN RainBonus * Scale
                     ELSE IF np.rain_tolerance = "high" /\ p >= RainHigh * Scale THEN RainBonus * Scale
                     ELSE 0
                ELSE 0
        terr == IF "terrain" \in np.keys /\ IsSubstring(np.terrain, row.loc[3])
                THEN TerrainBonus * Scale ELSE 0
    IN temp + rain + terr

\* location_data['score'] = scores
WithScores(table, np) ==
    [table EXCEPT !.columns = @ \cup {"score"},
                  !.rows = Tabulate(LAMBDA n : [table.rows[n] EXCEPT !.score = ScoreOf(table.rows[n], np)],
                                    Len(table.rows))]

RECURSIVE TakeLargest(_, _, _)
\* DataFrame.nlargest(k, 'score') over the rows with indices in I: highest
\* score first, the earlier row first among equal scores
TakeLargest(rows, I, k) ==
    IF k <= 0 \/ I = {} THEN <<>>
    ELSE LET b == CHOOSE i \in I : \A j \in I :
                     \/ rows[i].score > rows[j].score
                     \/ rows[i].score = rows[j].score /\ i <= j
         IN <<rows[b]>> \o TakeLargest(rows, I \ {b}, k - 1)

RECURSIVE TakeLargestLast(_, _, _)
\* nlargest with keep='last': the later row first among equal scores
TakeLargestLast(rows, I, k) ==
    IF k <= 0 \/ I = {} THEN <<>>
    ELSE LET b == CHOOSE i \in I : \A j \in I :
                     \/ rows[i].score > rows[j].score
                     \/ rows[i].score = rows[j].score /\ i >= j
         IN <<rows[b]>> \o TakeLargestLast(rows, I \ {b}, k - 1)

nlargest_keep_last(rows, k) == TakeLargestLast(rows, DOMAIN rows, k)

nlargest(rows, k) == TakeLargest(rows, DOMAIN rows, k)

\* recommendations[[..., 'cluster', 'score']].to_dict('records')
ToRecords(rows) ==
    Tabulate(LAMBDA n : [loc |-> rows[n].loc, cluster |-> rows[n].cluster, score |-> rows[n].score],
             Len(rows))

FindInScored(m, scored, top_k) ==
    IF "cluster" \notin scored.columns
    THEN [model |-> [m EXCEPT !.location_data = scored],
          recommendations |-> <<>>, raised |-> TRUE]
    ELSE [model |-> [m EXCEPT !.location_data = scored],
          recommendations |-> ToRecords(nlargest(scored.rows, top_k)),
          raised |-> FALSE]

\* WeightedKMeans.find_similar_locations: [model, recommendations, raised].
\* The score column is written to the shared table; selecting the 'cluster'
\* column raises KeyError when the table has none, and reading location_data
\* raises AttributeError before any fit or load has assigned it.
find_similar_locations(m, np, top_k) ==
    IF ~m.location_data.exists
    THEN [model |-> m, recommendations |-> <<>>, raised |-> TRUE]
    ELSE FindInScored(m, WithScores(m.location_data, np), top_k)

\* --------------------------------------------------- cluster characters
\* a selection that takes every row with a cluster id up to cluster_id
ClusterRowsUpTo(table, cluster_id) ==
    SelectSeq(Tabulate(LAMBDA n : n, Len(table.rows)),
              LAMBDA n : table.rows[n].cluster <= cluster_id)

\* location_data[location_data['cluster'] == cluster_id]: the row positions
ClusterRows(table, cluster_id) ==
    SelectSeq(Tabulate(LAMBDA n : n, Len(table.rows)),
              LAMBDA n : table.rows[n].cluster = cluster_id)

\* cluster_data[feature].mean() over the rows at the positions in members
ClusterMean(table, members, i) ==
    SumOver(LAMBDA k : table.rows[members[k]].feat[i], Len(members)) \div Len(members)

\* the two descriptive labels of lines 119-131
TempLabel(avg_temp) ==
    IF avg_temp < CoolBelow * Scale THEN "mat me"
    ELSE IF avg_temp < MildBelow * Scale THEN "on hoa"
    ELSE "nong"

RainLabel(avg_precip) ==
    IF avg_precip < LowRainBelow * Scale THEN "it mua"
    ELSE IF avg_precip < ModerateRainBelow * Scale THEN "mua vua"
    ELSE "nhieu mua"

\* lines 104-134: the entry of a cluster with the given members and means
Characteristics(table, cluster_id, members, avg) ==
    [cluster_id |-> cluster_id,
     locations |-> Tabulate(LAMBDA k : table.rows[members[k]].loc[1], Len(members)),
     count |-> Len(members),
     avg_features |-> avg,
     description |-> <<TempLabel(avg[FTemp]), RainLabel(avg[FPrecip])>>]

CharacteristicsOf(table, cluster_id, members) ==
    Characteristics(table, cluster_id, members,
                    Tabulate(LAMBDA i : ClusterMean(table, members, i), NF))

\* the loop over range(n_clusters), empty clusters skipped
ClusterChars(table, ids) ==
    Tabulate(LAMBDA k : CharacteristicsOf(table, ids[k], ClusterRows(table, ids[k])), Len(ids))

\* WeightedKMeans.get_cluster_characteristics: [clusters, raised].  Reading
\* location_data raises AttributeError before any fit or load, and selecting
\* the 'cluster' column raises KeyError when the table has none.
get_cluster_characteristics(m) ==
    IF ~m.location_data.exists \/ "cluster" \notin m.location_data.columns
    THEN [clusters |-> <<>>, raised |-> TRUE]
    ELSE [clusters |->
             ClusterChars(m.location_data,
                          SelectSeq(Tabulate(LAMBDA j : j - 1, NClusters),
                                    LAMBDA c : ClusterRows(m.location_data, c) # <<>>)),
          raised |-> FALSE]

\* ------------------------------------------------- RecommendationService
NoPrefs ==
    [month |-> 0, temperature_preference |-> "", rain_tolerance |-> "",
     terrain_preference |-> <<>>, activity_type |-> ""]

\* the weights dict update_weights_from_preferences builds
WeightsFromPreferences(prefs) ==
    Tabulate(LAMBDA i :
        IF i = FTemp /\ prefs.temperature_preference # "" THEN W20
        ELSE IF i = FPrecip /\ prefs.rain_tolerance # "" THEN W20
        ELSE IF i \in {FWind, FUv} /\ prefs.activity_type = "the thao" THEN W15
        ELSE W10, NF)

\* RecommendationService.update_weights_from_preferences
update_weights_from_preferences(m, prefs) == set_weights(m, WeightsFromPreferences(prefs))

\* RecommendationService.filter_by_month: the observations of that month
filter_by_month(d, month) ==
    IF month # 0 /\ d.loaded
    THEN [d EXCEPT !.rows = SelectSeq(d.rows, LAMBDA o : o.month = month)]
    ELSE d

\* RecommendationService._convert_preferences_to_numerical
convert_preferences_to_numerical(prefs) ==
    [keys |-> (IF prefs.temperature_preference # "" THEN {"temperature"} ELSE {})
              \cup (IF prefs.rain_tolerance # "" THEN {"rain_tolerance"} ELSE {})
              \cup (IF prefs.terrain_preference # <<>> THEN {"terrain"} ELSE {}),
     temperature |-> CASE prefs.temperature_preference = "mat" -> TempMat
                       [] prefs.temperature_preference = "on hoa" -> TempOnHoa
                       [] prefs.temperature_preference = "nong" -> TempNong
                       [] OTHER -> TempOnHoa,
     rain_tolerance |-> CASE prefs.rain_tolerance = "it" -> "low"
                          [] prefs.rain_tolerance = "vua" -> "medium"
                          [] prefs.rain_tolerance = "nhieu" -> "high"
                          [] OTHER -> "medium",
     terrain |-> prefs.terrain_preference]

\* _apply_preference_filters without the fallback to the unfiltered list
apply_preference_filters_strict(recommendations, prefs) ==
    SelectSeq(recommendations,
              LAMBDA rec : prefs.terrain_preference = <<>>
                           \/ IsSubstring(prefs.terrain_preference, rec.loc[3]))

\* RecommendationService._apply_preference_filters
apply_preference_filters(recommendations, prefs) ==
    IF recommendations = <<>> THEN recommendations
    ELSE LET filtered == SelectSeq(recommendations,
                 LAMBDA rec : prefs.terrain_preference = <<>>
                              \/ IsSubstring(prefs.terrain_preference, rec.loc[3]))
         IN IF filtered # <<>> THEN filtered ELSE recommendations

\* recommendations[:5]
FirstN(s, n) == SubSeq(s, 1, Min(n, Len(s)))

\* the service object and the files it works on, as one value
Service == [df |-> df, model_trained |-> model_trained,
            clustering_model |-> clustering_model, artifact |-> artifact]

NoDf == [loaded |-> FALSE, rows |-> <<>>]
\* what a call returned: raised (an exception left the call), value (the
\* boolean returned), error (the result dict carries "error"), ranked (the
\* list find_similar_locations returned), recommendations, labels, clusters
\* (the cluster characteristics), profiles (the table prepare_data returned)
NoReturn == [raised |-> FALSE, value |-> FALSE, error |-> FALSE,
             ranked |-> <<>>, recommendations |-> <<>>, labels |-> <<>>,
             clusters |-> <<>>, profiles |-> NoTable]
NoNumerical == [keys |-> {}, temperature |-> 0, rain_tolerance |-> "", terrain |-> <<>>]
NoCall == [op |-> "none", force_retrain |-> FALSE, preferences |-> NoPrefs,
           numerical |-> NoNumerical, top_k |-> 0]

\* RecommendationService.load_and_prepare_data: [svc, value]; a CSV that
\* cannot be read is caught and gives False
load_and_prepare_data(svc) ==
    IF csv.exists
    THEN [svc |-> [svc EXCEPT !.df = [loaded |-> TRUE, rows |-> csv.rows]], value |-> TRUE]
    ELSE [svc |-> svc, value |-> FALSE]

\* train_clustering_model, lines 45-54: fit and save inside the try block
TrainFitted(svc, f) ==
    IF f.raised
    THEN [svc |-> [svc EXCEPT !.clustering_model = f.model], value |-> FALSE, raised |-> FALSE]
    ELSE [svc |-> [svc EXCEPT !.clustering_model = f.model,
                              !.artifact = save_model(f.model),
                              !.model_trained = TRUE],
          value |-> TRUE, raised |-> FALSE]

\* train_clustering_model, lines 40-54, l being the outcome of loading the
\* observations when df is None
TrainLoaded(l) ==
    IF ~l.value THEN [svc |-> l.svc, value |-> FALSE, raised |-> FALSE]
    ELSE TrainFitted(l.svc, fit(l.svc.clustering_model, l.svc.df.rows))

TrainFromData(svc) ==
    TrainLoaded(IF svc.df.loaded THEN [svc |-> svc, value |-> TRUE]
                ELSE load_and_prepare_data(svc))

\* train_clustering_model, l being the outcome of load_model (not called on
\* a forced retrain); the call of load_model stands outside the try block
TrainAfterLoad(svc, force_retrain, l) ==
    IF ~force_retrain /\ l.raised THEN [svc |-> svc, value |-> FALSE, raised |-> TRUE]
    ELSE IF ~force_retrain /\ l.value
    THEN [svc |-> [svc EXCEPT !.clustering_model = l.model, !.model_trained = TRUE],
          value |-> TRUE, raised |-> FALSE]
    ELSE TrainFromData(svc)

\* RecommendationService.train_clustering_model: [svc, value, raised]
train_clustering_model(svc, force_retrain) ==
    TrainAfterLoad(svc, force_retrain, load_model(svc.clustering_model, svc.artifact))

\* get_recommendations, lines 115-136, f being the outcome of
\* find_similar_locations; an exception gives the error result.  (The table
\* has its cluster column here, so cluster_info does not raise.)
Respond(svc, prefs, f) ==
    IF f.raised
    THEN [svc |-> [svc EXCEPT !.clustering_model = f.model],
          ret |-> [NoReturn EXCEPT !.error = TRUE]]
    ELSE [svc |-> [svc EXCEPT !.clustering_model = f.model],
          ret |-> [NoReturn EXCEPT !.ranked = f.recommendations,
                                   !.recommendations =
                      FirstN(apply_preference_filters(f.recommendations, prefs), ShortList),
                                   !.clusters = get_cluster_characteristics(f.model).clusters]]

\* get_recommendations, lines 104-113; filtered_df is computed and not used
Score(svc, prefs, m1, filtered_df) ==
    Respond(svc, prefs,
            find_similar_locations(m1, convert_preferences_to_numerical(prefs), TopK))

\* get_recommendations, lines 96-136, on a service whose model is trained
Recommend(svc, prefs) ==
    Score(svc, prefs, update_weights_from_preferences(svc.clustering_model, prefs),
          filter_by_month(svc.df, prefs.month))

\* get_recommendations, t being the outcome of making a model available
\* (lines 88-94); train_clustering_model is called outside the try block
RecommendAfterInit(prefs, t) ==
    IF t.raised THEN [svc |-> t.svc, ret |-> [NoReturn EXCEPT !.raised = TRUE]]
    ELSE IF ~t.value THEN [svc |-> t.svc, ret |-> [NoReturn EXCEPT !.error = TRUE]]
    ELSE Recommend(t.svc, prefs)

\* get_recommendations that retrains on every request
get_recommendations_retraining(svc, prefs) ==
    RecommendAfterInit(prefs, train_clustering_model(svc, TRUE))

\* RecommendationService.get_recommendations: [svc, ret]
get_recommendations(svc, prefs) ==
    RecommendAfterInit(prefs,
        IF svc.model_trained THEN [svc |-> svc, value |-> TRUE, raised |-> FALSE]
        ELSE train_clustering_model(svc, FALSE))

\* ------------------------------------------------------------ the inputs
Mountain == <<1, 2>>
Coast == <<3>>
Delta == <<2, 1>>

\* weather observations: five locations, the first observed in two months
DataMain ==
    <<Obs(1, Mountain, 1, 18, 1), Obs(1, Mountain, 2, 22, 1),
      Obs(2, Mountain, 1, 20, 2), Obs(3, Coast, 2, 20, 3),
      Obs(4, Coast, 1, 26, 2), Obs(5, Delta, 2, 34, 2)>>

\* a CSV with a single location: fewer samples than clusters
DataTiny == <<Obs(1, Mountain, 1, 22, 1), Obs(1, Mountain, 2, 24, 3)>>

\* the observations an artifact left by an earlier run was trained on
DataEarlier ==
    <<Obs(1, Mountain, 1, 21, 1), Obs(2, Coast, 1, 30, 11), Obs(6, Delta, 1, 27, 5)>>

CsvChoices ==
    {[exists |-> FALSE, rows |-> <<>>],
     [exists |-> TRUE, rows |-> DataMain],
     [exists |-> TRUE, rows |-> DataTiny]}

ArtifactChoices ==
    {AbsentFile, CorruptFile, CompleteFile(fit(NewModel, DataEarlier).model)}

\* the preference records the extraction step can hand over
PrefChoices ==
    {[month |-> mo, temperature_preference |-> t, rain_tolerance |-> r,
      terrain_preference |-> <<>>, activity_type |-> a] :
        mo \in {0, 1}, t \in {"", "mat"}, r \in {"", "it"}, a \in {"", "the thao", "van hoa"}}

\* no save and no load of another process in progress
IdleSaver == [pc |-> "idle"]
IdleLoader == [pc |-> "idle", result |-> "none", data |-> NoData]

\* ------------------------------------------------------------- the service
\* module load of main.py: RecommendationService()
Init ==
    /\ csv \in CsvChoices
    /\ artifact \in ArtifactChoices
    /\ df = NoDf
    /\ model_trained = FALSE
    /\ clustering_model = NewModel
    /\ call = NoCall
    /\ ret = NoReturn
    /\ saver = IdleSaver
    /\ loader = IdleLoader

Install(svc) ==
    /\ df' = svc.df
    /\ model_trained' = svc.model_trained
    /\ clustering_model' = svc.clustering_model
    /\ artifact' = svc.artifact

LoadAndPrepareData ==
    \E r \in {load_and_prepare_data(Service)} :
        /\ Install(r.svc)
        /\ call' = [NoCall EXCEPT !.op = "load_and_prepare_data"]
        /\ ret' = [NoReturn EXCEPT !.value = r.value]
        /\ UNCHANGED <<csv, saver, loader>>

TrainClusteringModel ==
    \E force \in BOOLEAN :
        \E r \in {train_clustering_model(Service, force)} :
            /\ Install(r.svc)
            /\ call' = [NoCall EXCEPT !.op = "train_clustering_model", !.force_retrain = force]
            /\ ret' = [NoReturn EXCEPT !.value = r.value, !.raised = r.raised]
            /\ UNCHANGED <<csv, saver, loader>>

GetRecommendations ==
    \E prefs \in PrefChoices :
        \E r \in {get_recommendations(Service, prefs)} :
            /\ Install(r.svc)
            /\ call' = [NoCall EXCEPT !.op = "get_recommendations", !.preferences = prefs]
            /\ ret' = r.ret
            /\ UNCHANGED <<csv, saver, loader>>

\* clustering_model.predict(df) on the loaded observations
Predict ==
    /\ df.loaded
    /\ \E r \in {predict(clustering_model, df.rows)} :
          /\ call' = [NoCall EXCEPT !.op = "predict"]
          /\ ret' = [NoReturn EXCEPT !.labels = r.labels, !.raised = r.raised]
    /\ UNCHANGED <<csv, artifact, df, model_trained, clustering_model, saver, loader>>

Next ==
    \/ LoadAndPrepareData
    \/ TrainClusteringModel
    \/ GetRecommendations
    \/ Predict

Spec == Init /\ [][Next]_vars

\* ---------------------------------------------------------------------
\* SpecScore: find_similar_locations as a function of the profile table,
\* the numeric preference record and top_k.
MaxRows == 3
MaxTopK == 4

\* a profile row: temperature and precipitation in hundredths
ScoreRow(temp, precip, terrain) ==
    [loc |-> <<0, 1, terrain, 10, 100>>,
     feat |-> <<(temp * Scale) \div 100, 12 * Scale, (precip * Scale) \div 100,
                10 * Scale, 80 * Scale, 7 * Scale>>,
     cluster |-> 0, score |-> -1]

ScoreRows ==
    {ScoreRow(2200, 199, Mountain), ScoreRow(1200, 200, Coast),
     ScoreRow(3250, 1000, Delta), ScoreRow(4500, 999, Mountain)}

\* the rows get the names 1, 2, ... in table order
NameRows(rows) ==
    Tabulate(LAMBDA n : [rows[n] EXCEPT !.loc = <<n, 1, rows[n].loc[3], 10 + n, 100 + n>>],
             Len(rows))

ScoreTables ==
    UNION {{[exists |-> TRUE, columns |-> {"location", "features", "cluster"},
             rows |-> NameRows(rows)] : rows \in [1..n -> ScoreRows]} : n \in 0..MaxRows}

NumericalChoices ==
    {[keys |-> (IF t = 0 THEN {} ELSE {"temperature"})
               \cup (IF r = "" THEN {} ELSE {"rain_tolerance"})
               \cup (IF g = <<0>> THEN {} ELSE {"terrain"}),
      temperature |-> t, rain_tolerance |-> r, terrain |-> IF g = <<0>> THEN <<>> ELSE g] :
        t \in {0, TempMat, TempNong}, r \in {"", "low", "medium", "high"},
        g \in {<<0>>, <<>>, <<2>>, Coast}}

InitScore ==
    /\ csv = [exists |-> FALSE, rows |-> <<>>]
    /\ artifact = AbsentFile
    /\ df = NoDf
    /\ model_trained = FALSE
    /\ \E table \in ScoreTables : clustering_model = [NewModel EXCEPT !.location_data = table]
    /\ call = NoCall
    /\ ret = NoReturn
    /\ saver = IdleSaver
    /\ loader = IdleLoader

\* clustering_model.find_similar_locations(preferences, top_k)
FindSimilarLocations ==
    /\ call.op = "none"
    /\ \E np \in NumericalChoices, top_k \in 0..MaxTopK :
        \E r \in {find_similar_locations(clustering_model, np, top_k)} :
            /\ clustering_model' = r.model
            /\ call' = [NoCall EXCEPT !.op = "find_similar_locations",
                                      !.numerical = np, !.top_k = top_k]
            /\ ret' = [NoReturn EXCEPT !.ranked = r.recommendations, !.raised = r.raised]
    /\ UNCHANGED <<csv, artifact, df, model_trained, saver, loader>>

NextScore == FindSimilarLocations

SpecScore == InitScore /\ [][NextScore]_vars

\* ---------------------------------------------------------------------
\* SpecFilter: lines 116-125 of get_recommendations as a function of the
\* ranked list and the preference record.
MaxRanked == 6

\* ranked lists as find_similar_locations returns them: scores never rise
RankedLists ==
    UNION {{Tabulate(LAMBDA i : [loc |-> <<i, 1, t[i], 10 + i, 100 + i>>, cluster |-> 0,
                                 score |-> ((MaxRanked + 1 - i) \div 2) * Scale], n) :
               t \in [1..n -> {Mountain, Coast, Delta}]} : n \in 0..MaxRanked}

FilterPrefChoices ==
    {[NoPrefs EXCEPT !.terrain_preference = g] : g \in {<<>>, Mountain, Coast, <<2>>, <<4>>}}

InitFilter ==
    /\ csv = [exists |-> FALSE, rows |-> <<>>]
    /\ artifact = AbsentFile
    /\ df = NoDf
    /\ model_trained = FALSE
    /\ clustering_model = NewModel
    /\ call = [NoCall EXCEPT !.op = "find_similar_locations", !.top_k = TopK]
    /\ \E ranked \in RankedLists : ret = [NoReturn EXCEPT !.ranked = ranked]
    /\ saver = IdleSaver
    /\ loader = IdleLoader

\* recommendations = self._apply_preference_filters(recommendations,
\* preferences) and the recommendations[:5] of the result
ApplyPreferenceFilters ==
    /\ call.op = "find_similar_locations"
    /\ \E prefs \in FilterPrefChoices :
        /\ call' = [NoCall EXCEPT !.op = "apply_preference_filters", !.preferences = prefs]
        /\ ret' = [ret EXCEPT !.recommendations =
                      FirstN(apply_preference_filters(ret.ranked, prefs), ShortList)]
    /\ UNCHANGED <<csv, artifact, df, model_trained, clustering_model, saver, loader>>

NextFilter == ApplyPreferenceFilters

SpecFilter == InitFilter /\ [][NextFilter]_vars

\* ---------------------------------------------------------------------
\* SpecSave: save_model of one process, system call by system call, while
\* another process of the service runs load_model on the same path.

\* the artifact an earlier run left, if any
SaveArtifactChoices == {AbsentFile, CompleteFile(fit(NewModel, DataEarlier).model)}

\* the saving process stands in train_clustering_model after line 46: it has
\* fitted the observations with the weights the last request left
InitSave ==
    /\ csv = [exists |-> TRUE, rows |-> DataMain]
    /\ artifact \in SaveArtifactChoices
    /\ df = [loaded |-> TRUE, rows |-> DataMain]
    /\ model_trained = FALSE
    /\ \E prefs \in PrefChoices :
          clustering_model =
              fit(update_weights_from_preferences(NewModel, prefs), DataMain).model
    /\ call = [NoCall EXCEPT !.op = "train_clustering_model", !.force_retrain = TRUE]
    /\ ret = NoReturn
    /\ saver = IdleSaver
    /\ loader = IdleLoader

\* open(filepath, 'wb') truncates the file
SaveOpen ==
    /\ saver.pc = "idle"
    /\ artifact' = EmptyFile
    /\ saver' = [pc |-> "open"]
    /\ UNCHANGED <<csv, df, model_trained, clustering_model, call, ret, loader>>

\* pickle.dump: the buffered writer flushes a first part of the pickle
SaveWrite ==
    /\ saver.pc = "open"
    /\ artifact' = [state |-> "partial", data |-> ModelData(clustering_model)]
    /\ saver' = [pc |-> "writing"]
    /\ UNCHANGED <<csv, df, model_trained, clustering_model, call, ret, loader>>

\* leaving the with block flushes the rest and closes the file; line 48
SaveClose ==
    /\ saver.pc \in {"open", "writing"}
    /\ artifact' = save_model(clustering_model)
    /\ saver' = [pc |-> "closed"]
    /\ model_trained' = TRUE
    /\ ret' = [NoReturn EXCEPT !.value = TRUE]
    /\ UNCHANGED <<csv, df, clustering_model, call, loader>>

\* load_model in the other process, line 153: os.path.exists
LoadExists ==
    /\ loader.pc \in {"idle", "done"}
    /\ loader' = IF artifact.state = "absent"
                 THEN [pc |-> "done", result |-> "not_found", data |-> NoData]
                 ELSE [pc |-> "exists", result |-> "none", data |-> NoData]
    /\ UNCHANGED <<csv, artifact, df, model_trained, clustering_model, call, ret, saver>>

\* load_model in the other process, lines 156-166, on its fresh model object
LoadRead ==
    /\ loader.pc = "exists"
    /\ \E r \in {load_model(NewModel, artifact)} :
          loader' = IF r.raised
                    THEN [pc |-> "done", result |-> "raised", data |-> NoData]
                    ELSE [pc |-> "done", result |-> "loaded", data |-> ModelData(r.model)]
    /\ UNCHANGED <<csv, artifact, df, model_trained, clustering_model, call, ret, saver>>

NextSave ==
    \/ SaveOpen
    \/ SaveWrite
    \/ SaveClose
    \/ LoadExists
    \/ LoadRead

SpecSave == InitSave /\ [][NextSave]_vars

\* ---------------------------------------------------------------------
\* SpecAggregate: prepare_data as a function of the observation set, which
\* grows by further observations of locations already present.
MaxObs == 3

\* three location identities, two of them with the same name, and two
\* readings of each
ObsChoices ==
    {Obs(1, Mountain, 1, 20, 1), Obs(1, Mountain, 2, 21, 4),
     Obs(2, Coast, 1, 20, 1), Obs(2, Coast, 2, 21, 4),
     Obs(1, Coast, 1, 20, 1), Obs(1, Coast, 2, 21, 4)}

ObsSets == UNION {[1..n -> ObsChoices] : n \in 0..MaxObs}

InitAggregate ==
    /\ csv = [exists |-> FALSE, rows |-> <<>>]
    /\ artifact = AbsentFile
    /\ \E rows \in ObsSets : df = [loaded |-> TRUE, rows |-> rows]
    /\ model_trained = FALSE
    /\ clustering_model = NewModel
    /\ call = NoCall
    /\ ret = NoReturn
    /\ saver = IdleSaver
    /\ loader = IdleLoader

\* clustering_model.prepare_data(df)
PrepareData ==
    /\ call.op \in {"none", "add_observation"}
    /\ call' = [NoCall EXCEPT !.op = "prepare_data"]
    /\ ret' = [NoReturn EXCEPT !.profiles = prepare_data(df.rows)]
    /\ UNCHANGED <<csv, artifact, df, model_trained, clustering_model, saver, loader>>

\* the observation set gets one more observation of a location it has
AddObservation ==
    /\ call.op = "prepare_data"
    /\ Len(df.rows) <= MaxObs
    /\ \E o \in ObsChoices :
          /\ \E j \in DOMAIN df.rows : df.rows[j].loc = o.loc
          /\ df' = [df EXCEPT !.rows = Append(@, o)]
    /\ call' = [NoCall EXCEPT !.op = "add_observation"]
    /\ UNCHANGED <<csv, artifact, model_trained, clustering_model, ret, saver, loader>>

NextAggregate ==
    \/ PrepareData
    \/ AddObservation

SpecAggregate == InitAggregate /\ [][NextAggregate]_vars

\* ---------------------------------------------------------------------
\* SpecChars: get_cluster_characteristics as a function of the model's
\* profile table and its cluster column.
MaxCharRows == 3

\* a clustered profile row: temperature and precipitation in whole units
CharRow(temp, precip, cluster) ==
    [loc |-> <<0, 1, Mountain, 10, 100>>,
     feat |-> <<temp * Scale, 12 * Scale, precip * Scale, 10 * Scale, 80 * Scale, 7 * Scale>>,
     cluster |-> cluster, score |-> -1]

CharRows ==
    {CharRow(f[1], f[2], c) : f \in {<<19, 1>>, <<30, 12>>}, c \in 0..(NClusters - 1)}

\* the tables a fit or a load can leave, and the table a fit leaves that
\* failed before the cluster column was added
CharTables ==
    UNION {{[exists |-> TRUE, columns |-> {"location", "features", "cluster"},
             rows |-> NameRows(rows)] : rows \in [1..n -> CharRows]} : n \in 0..MaxCharRows}
    \cup {[exists |-> TRUE, columns |-> {"location", "features"},
           rows |-> NameRows(<<CharRow(19, 1, -1)>>)]}

InitChars ==
    /\ csv = [exists |-> FALSE, rows |-> <<>>]
    /\ artifact = AbsentFile
    /\ df = NoDf
    /\ model_trained = FALSE
    /\ \E table \in CharTables \cup {NoTable}, prefs \in PrefChoices :
          clustering_model =
              [update_weights_from_preferences(NewModel, prefs) EXCEPT !.location_data = table]
    /\ call = NoCall
    /\ ret = NoReturn
    /\ saver = IdleSaver
    /\ loader = IdleLoader

\* clustering_model.get_cluster_characteristics()
GetClusterCharacteristics ==
    /\ call.op = "none"
    /\ \E r \in {get_cluster_characteristics(clustering_model)} :
          /\ call' = [NoCall EXCEPT !.op = "get_cluster_characteristics"]
          /\ ret' = [NoReturn EXCEPT !.clusters = r.clusters, !.raised = r.raised]
    /\ UNCHANGED <<csv, artifact, df, model_trained, clustering_model, saver, loader>>

NextChars == GetClusterCharacteristics

SpecChars == InitChars /\ [][NextChars]_vars

\* =====================================================================
\* The claims
\* =====================================================================

\* C1: a recommendation request on a trained model only reads the shared
\* model object: every component of clustering_model (weights, scaler
\* statistics, centroids, profile table and assignments) is the same before
\* and after the call.
C1_RequestOnlyReadsModel ==
    [][(call'.op = "get_recommendations" /\ model_trained)
          => clustering_model' = clustering_model]_vars

\* the model was fitted on the observations now loaded
FittedOnDf ==
    /\ df.loaded
    /\ clustering_model.location_data.exists
    /\ "cluster" \in clustering_model.location_data.columns
    /\ FeatureMatrix(clustering_model.location_data) = FeatureMatrix(prepare_data(df.rows))

\* C2: whatever requests came in between, predict on the observations the
\* model was fitted on returns the cluster assignments stored at fit time.
C2_PredictReproducesFit ==
    (call.op = "predict" /\ ~ret.raised /\ model_trained /\ FittedOnDf)
        => ret.labels = clustering_model.cluster_labels_

\* C3: when the preference record carries a month, every returned
\* recommendation is a location that has an observation in that month.
C3_MonthRestrictsCandidates ==
    (call.op = "get_recommendations" /\ ~ret.raised /\ ~ret.error
        /\ call.preferences.month # 0 /\ df.loaded)
        => \A i \in DOMAIN ret.recommendations :
              \E j \in DOMAIN df.rows :
                  /\ df.rows[j].loc = ret.recommendations[i].loc
                  /\ df.rows[j].month = call.preferences.month

\* C4: no call of train_clustering_model or get_recommendations ends with an
\* exception: an artifact that is missing or does not deserialize counts as
\* not found.
C4_LoadFailureIsNotFound ==
    call.op \in {"train_clustering_model", "get_recommendations"} => ~ret.raised

\* the scaler statistics, the centroids and the assignments of m belong to
\* one fit of m's own profile table
Whole(m) ==
    /\ m.location_data.exists
    /\ "cluster" \in m.location_data.columns
    /\ m.scaler = ScalerFit(FeatureMatrix(m.location_data))
    /\ m.kmeans.fitted
    /\ m.cluster_labels_ = m.kmeans.labels_
    /\ m.cluster_centers_ = m.kmeans.cluster_centers_
    /\ Len(m.cluster_labels_) = Len(m.location_data.rows)
    /\ \A n \in DOMAIN m.location_data.rows :
          m.location_data.rows[n].cluster = m.cluster_labels_[n]

\* C5: whenever model_trained holds, the shared model is whole: statistics,
\* centroids and per-location assignments come from one completed fit or
\* load, also after a retrain that failed part-way.  (The weights are left
\* out: C1 already lets requests change them.)
C5_TrainedModelIsWhole == model_trained => Whole(clustering_model)

\* C6: a load_model that ran beside a save_model of the same path found no
\* artifact, or loaded the complete previous artifact or the complete new
\* one; it never met a partly written file.
C6_LoadSeesWholeArtifact ==
    loader.pc = "done"
        => \/ loader.result = "not_found"
           \/ /\ loader.result = "loaded"
              /\ loader.data \in {ModelData(clustering_model)}
                                 \cup {a.data : a \in SaveArtifactChoices}

\* a is a contiguous part of b
Contains(a, b) == \E i \in 0..Len(b), j \in 0..Len(b) : SubSeq(b, i + 1, j) = a

\* s is the first min(n, Len(list)) elements of list
IsPrefixOfLength(s, list, n) ==
    /\ Len(s) = (IF Len(list) < n THEN Len(list) ELSE n)
    /\ \A i \in 1..Len(s) : s[i] = list[i]

\* C7: after the terrain filter, the first 5 are returned of: the ranked list
\* itself when the requested terrain is a substring of no candidate's terrain
\* tag (or none is requested); exactly the matching candidates, in rank order,
\* when at least one matches.  A non-empty ranked list never gives an empty
\* result.
C7_TerrainFilterFallback ==
    call.op = "apply_preference_filters"
        => LET t == call.preferences.terrain_preference
               matching == SelectSeq(ret.ranked, LAMBDA rec : Contains(t, rec.loc[3]))
           IN /\ (t = <<>> \/ matching = <<>>)
                    => IsPrefixOfLength(ret.recommendations, ret.ranked, 5)
              /\ (t # <<>> /\ matching # <<>>)
                    => IsPrefixOfLength(ret.recommendations, matching, 5)
              /\ ret.ranked # <<>> => ret.recommendations # <<>>

\* C7 witness: six ranked candidates, none with the requested terrain: the
\* first five of the unfiltered list come back
C7_Witness ==
    /\ call.op = "apply_preference_filters"
    /\ call.preferences.terrain_preference = <<4>>
    /\ Len(ret.ranked) = 6
    /\ Len(ret.recommendations) = 5
    /\ ret.recommendations[5] = ret.ranked[5]

\* the precipitation p (fixed-point) lies in the band of the rain tolerance
InBand(band, p) ==
    \/ band = "low" /\ p < 2 * Scale
    \/ band = "medium" /\ 2 * Scale <= p /\ p < 10 * Scale
    \/ band = "high" /\ p >= 10 * Scale

\* the score the claim prescribes for a row
ClaimedScore(row, np) ==
    (IF "temperature" \in np.keys
     THEN (IF Abs(row.feat[1] - np.temperature * Scale) >= 10 * Scale THEN 0
           ELSE 10 * Scale - Abs(row.feat[1] - np.temperature * Scale))
     ELSE 0)
    + (IF "rain_tolerance" \in np.keys /\ InBand(np.rain_tolerance, row.feat[3])
       THEN 5 * Scale ELSE 0)
    + (IF "terrain" \in np.keys /\ Contains(np.terrain, row.loc[3]) THEN 3 * Scale ELSE 0)

\* C8: every location's suitability score is the sum of the present terms and
\* never negative: max(0, 10 - |avg_temp - target|), +5 for precipitation in
\* the band of the rain tolerance (low < 2, 2 <= medium < 10, high >= 10), +3
\* for a terrain string contained in the terrain tag; absent dimensions add 0.
C8_ScoreIsSumOfTerms ==
    (call.op = "find_similar_locations" /\ ~ret.raised)
        => \A n \in DOMAIN clustering_model.location_data.rows :
              LET row == clustering_model.location_data.rows[n]
              IN /\ row.score = ClaimedScore(row, call.numerical)
                 /\ row.score >= 0

\* C8 witness: precipitation exactly 2 scored as medium and exactly 10 as
\* high, in one table
C8_Witness ==
    /\ call.op = "find_similar_locations"
    /\ call.numerical.keys = {"rain_tolerance"}
    /\ call.numerical.rain_tolerance = "medium"
    /\ \E n \in DOMAIN clustering_model.location_data.rows :
          /\ clustering_model.location_data.rows[n].feat[3] = 2 * Scale
          /\ clustering_model.location_data.rows[n].score = 5 * Scale
    /\ \E n \in DOMAIN clustering_model.location_data.rows :
          /\ clustering_model.location_data.rows[n].feat[3] = 10 * Scale
          /\ clustering_model.location_data.rows[n].score = 0

\* C9: find_similar_locations returns min(top_k, number of locations)
\* locations of the table, in non-increasing score order; no omitted location
\* scores higher than a returned one; locations of equal score come in their
\* order in the table (the row names are the table positions).
C9_TopKStable ==
    (call.op = "find_similar_locations" /\ ~ret.raised)
        => LET rows == clustering_model.location_data.rows
               out == ret.ranked
               returned == {out[i].loc[1] : i \in DOMAIN out}
           IN /\ Len(out) = (IF call.top_k < Len(rows) THEN call.top_k ELSE Len(rows))
              /\ Cardinality(returned) = Len(out)
              /\ \A i \in DOMAIN out :
                    /\ out[i].loc[1] \in DOMAIN rows
                    /\ out[i].loc = rows[out[i].loc[1]].loc
                    /\ out[i].score = rows[out[i].loc[1]].score
              /\ \A i \in DOMAIN out, j \in DOMAIN out :
                    i < j => /\ out[i].score >= out[j].score
                             /\ out[i].score = out[j].score => out[i].loc[1] < out[j].loc[1]
              /\ \A n \in DOMAIN rows \ returned, i \in DOMAIN out :
                    rows[n].score <= out[i].score

\* C9 witness: three locations of equal positive score, top_k = 2: the first
\* two come back, in table order
C9_Witness ==
    /\ call.op = "find_similar_locations"
    /\ call.top_k = 2
    /\ Len(clustering_model.location_data.rows) = 3
    /\ Len(ret.ranked) = 2
    /\ ret.ranked[1].score > 0
    /\ \A n \in 1..3 : clustering_model.location_data.rows[n].score = ret.ranked[1].score

\* the weight vector the claim prescribes for a preference record
ClaimedWeights(prefs) ==
    <<IF prefs.temperature_preference # "" THEN 2 * Scale ELSE Scale,
      IF prefs.activity_type = "the thao" THEN (3 * Scale) \div 2 ELSE Scale,
      IF prefs.rain_tolerance # "" THEN 2 * Scale ELSE Scale,
      Scale,
      Scale,
      IF prefs.activity_type = "the thao" THEN (3 * Scale) \div 2 ELSE Scale>>

\* C10: after a request that got as far as deriving weights, the weights in
\* effect are those of its preference record alone, whatever requests and
\* trainings came before.
C10_WeightsFromLatestRecord ==
    (call.op = "get_recommendations" /\ ~ret.raised /\ model_trained)
        => clustering_model.feature_weights = ClaimedWeights(call.preferences)

\* C10 witness: the artifact holds raised weights an earlier request left
\* (a forced retrain saved them), and the latest request, without
\* preferences, has put every weight back to 1.0
C10_Witness ==
    /\ call.op = "get_recommendations"
    /\ ~ret.error
    /\ model_trained
    /\ call.preferences.temperature_preference = ""
    /\ call.preferences.rain_tolerance = ""
    /\ call.preferences.activity_type = ""
    /\ artifact.state = "complete"
    /\ artifact.data.feature_weights = <<2 * Scale, (3 * Scale) \div 2, 2 * Scale,
                                         Scale, Scale, (3 * Scale) \div 2>>
    /\ clustering_model.feature_weights = <<Scale, Scale, Scale, Scale, Scale, Scale>>

\* the parts of the model a fit produces: standardization statistics,
\* centroids and assignments (the score column and the weights are not)
Fitted(m) ==
    <<m.scaler, m.kmeans, m.cluster_labels_, m.cluster_centers_,
      Tabulate(LAMBDA n : <<m.location_data.rows[n].loc, m.location_data.rows[n].feat,
                            m.location_data.rows[n].cluster>>, Len(m.location_data.rows))>>

\* C11: a get_recommendations call on a trained model never retrains: the
\* standardization statistics, centroids, assignments and the artifact are
\* what they were before the call.  A step that does fit (it leaves a model
\* that is not the one just read from the artifact, or rewrites the artifact)
\* is a forced train_clustering_model, or a first use (model_trained false)
\* or a train_clustering_model that found no artifact.
C11_NoImplicitRetraining ==
    [][/\ (call'.op = "get_recommendations" /\ model_trained)
              => /\ Fitted(clustering_model') = Fitted(clustering_model)
                 /\ artifact' = artifact
       /\ (artifact' # artifact
           \/ (Fitted(clustering_model') # Fitted(clustering_model)
               /\ (artifact.state # "complete"
                   \/ Fitted(clustering_model') # Fitted(load_model(NewModel, artifact).model))))
              => \/ call'.op = "train_clustering_model" /\ call'.force_retrain
                 \/ /\ call'.op = "train_clustering_model"
                    /\ artifact.state = "absent"
                 \/ /\ call'.op = "get_recommendations"
                    /\ ~model_trained
                    /\ artifact.state = "absent"]_vars

\* C11 witness: a request on a trained model has changed the weights, and
\* statistics, centroids and assignments are still those of the artifact
C11_Witness ==
    /\ call.op = "get_recommendations"
    /\ model_trained
    /\ ~ret.error
    /\ artifact.state = "complete"
    /\ clustering_model.feature_weights # artifact.data.feature_weights
    /\ clustering_model.scaler = artifact.data.scaler
    /\ clustering_model.kmeans = artifact.data.kmeans
    /\ clustering_model.cluster_labels_ = artifact.data.cluster_labels_

\* a result without an error carries the whole short list: the best five (or
\* all, if fewer) of the profiled locations, best first
CompleteList ==
    LET rows == clustering_model.location_data.rows
        out == ret.recommendations
    IN /\ Len(out) = (IF Len(rows) < 5 THEN Len(rows) ELSE 5)
       /\ \A i \in DOMAIN out :
             \E n \in DOMAIN rows : rows[n].loc = out[i].loc /\ rows[n].score = out[i].score
       /\ \A i \in DOMAIN out, j \in DOMAIN out : i < j => out[i].score >= out[j].score

\* C12: no get_recommendations call ends with an exception; when no model can
\* be made available or a step raises, the result carries an error and an
\* empty recommendation list; a result without an error carries a complete
\* ranked list.
C12_FailureBecomesErrorResult ==
    call.op = "get_recommendations"
        => /\ ~ret.raised
           /\ ret.error => ret.recommendations = <<>>
           /\ (~ret.raised /\ ~ret.error) => CompleteList
           /\ (~ret.raised /\ ~model_trained) => ret.error

\* the cluster ids of the rows of a profile table, in table order
Assignments(table) == Tabulate(LAMBDA n : table.rows[n].cluster, Len(table.rows))

\* C13: whenever an operation has written the artifact, load_model on a fresh
\* model object restores from it the standardization parameters, centroids
\* and per-location assignments of the model that was saved, and the weights
\* the fit ran with (those on the shared model when the operation began).
C13_PersistenceRoundTrip ==
    [][artifact' # artifact
          => LET l == load_model(NewModel, artifact')
             IN /\ l.value /\ ~l.raised
                /\ l.model.scaler = clustering_model'.scaler
                /\ l.model.kmeans = clustering_model'.kmeans
                /\ l.model.cluster_centers_ = clustering_model'.cluster_centers_
                /\ l.model.cluster_labels_ = clustering_model'.cluster_labels_
                /\ Assignments(l.model.location_data) = clustering_model'.cluster_labels_
                /\ l.model.feature_weights = clustering_model.feature_weights]_vars

\* C13 witness: a forced retrain has saved a model fitted with weights a
\* request had raised, and a later train_clustering_model has loaded it back
C13_Witness ==
    /\ call.op = "train_clustering_model"
    /\ ~call.force_retrain
    /\ ret.value
    /\ artifact.state = "complete"
    /\ artifact.data.feature_weights = <<2 * Scale, Scale, Scale, Scale, Scale, Scale>>
    /\ Len(artifact.data.cluster_labels_) = 5
    /\ clustering_model.feature_weights = artifact.data.feature_weights
    /\ clustering_model.scaler = artifact.data.scaler
    /\ clustering_model.cluster_centers_ = artifact.data.cluster_centers_
    /\ clustering_model.cluster_labels_ = artifact.data.cluster_labels_

\* the profile table has exactly one row for each location identity of the
\* observations, and each of its metrics is the mean over the observations
\* of that identity (to the fixed-point resolution)
ProfilesOf(profiles, rows) ==
    LET ids == {rows[j].loc : j \in DOMAIN rows}
    IN /\ profiles.exists
       /\ Len(profiles.rows) = Cardinality(ids)
       /\ \A id \in ids : \E n \in DOMAIN profiles.rows : profiles.rows[n].loc = id
       /\ \A n \in DOMAIN profiles.rows :
             LET own == {j \in DOMAIN rows : rows[j].loc = profiles.rows[n].loc}
             IN /\ own # {}
                /\ \A i \in 1..6 :
                      LET total == SumOver(LAMBDA j : IF j \in own THEN rows[j].feat[i] ELSE 0,
                                           Len(rows))
                      IN /\ profiles.rows[n].feat[i] * Cardinality(own) <= total
                         /\ total < (profiles.rows[n].feat[i] + 1) * Cardinality(own)

\* C14: prepare_data gives exactly one profile per distinct location identity
\* (name, region, terrain, latitude, longitude) of the observations, every
\* metric the mean over that identity's observations; adding observations of
\* locations already present leaves the number of profiles as it was; no
\* observations give no profiles.  (Observations have all identity fields.)
C14_OneProfilePerIdentity ==
    [][call'.op = "prepare_data"
          => /\ ProfilesOf(ret'.profiles, df'.rows)
             /\ df'.rows = <<>> => ret'.profiles.rows = <<>>
             /\ call.op = "add_observation"
                    => Len(ret'.profiles.rows) = Len(ret.profiles.rows)]_vars

\* C14 witness: four observations of three identities, two of which share
\* the name: three profiles, the one with two observations holding their mean
C14_Witness ==
    /\ call.op = "prepare_data"
    /\ Len(df.rows) = 4
    /\ Len(ret.profiles.rows) = 3
    /\ \E n \in 1..3, j \in 1..4, k \in 1..4 :
          /\ j < k
          /\ df.rows[j].loc = df.rows[k].loc
          /\ df.rows[j].feat[1] = 20 * Scale
          /\ df.rows[k].feat[1] = 21 * Scale
          /\ ret.profiles.rows[n].loc = df.rows[j].loc
          /\ 2 * ret.profiles.rows[n].feat[1] <= 41 * Scale
          /\ 41 * Scale < 2 * (ret.profiles.rows[n].feat[1] + 1)
    /\ \E n \in 1..3, k \in 1..3 :
          /\ n # k
          /\ ret.profiles.rows[n].loc[1] = ret.profiles.rows[k].loc[1]

\* the rows of the table that carry cluster id c
MembersOf(rows, c) == {n \in DOMAIN rows : rows[n].cluster = c}

\* C15: the characteristics returned hold exactly one entry for every cluster
\* id with a member and none for an id without; an entry lists exactly the
\* names of its cluster's members, its count is the length of that list, so
\* every profiled location is in exactly one entry and the counts add up to
\* the number of profiles; each mean is the mean of the members' metric
\* values as the table holds them (original units, no weight applied).
C15_CharacteristicsPartition ==
    (call.op = "get_cluster_characteristics" /\ ~ret.raised)
        => LET rows == clustering_model.location_data.rows
               out == ret.clusters
           IN /\ \A c \in 0..(NClusters - 1) :
                    Cardinality({k \in DOMAIN out : out[k].cluster_id = c})
                        = (IF MembersOf(rows, c) = {} THEN 0 ELSE 1)
              /\ \A k \in DOMAIN out :
                    LET own == MembersOf(rows, out[k].cluster_id)
                    IN /\ out[k].cluster_id \in 0..(NClusters - 1)
                       /\ {out[k].locations[x] : x \in DOMAIN out[k].locations}
                              = {rows[n].loc[1] : n \in own}
                       /\ Len(out[k].locations) = Cardinality(own)
                       /\ out[k].count = Len(out[k].locations)
                       /\ \A i \in 1..6 :
                             LET total == SumOver(LAMBDA n : IF n \in own THEN rows[n].feat[i]
                                                            ELSE 0, Len(rows))
                             IN /\ out[k].avg_features[i] * out[k].count <= total
                                /\ total < (out[k].avg_features[i] + 1) * out[k].count
              /\ \A n \in DOMAIN rows :
                    Cardinality({k \in DOMAIN out :
                        \E x \in DOMAIN out[k].locations : out[k].locations[x] = rows[n].loc[1]}) = 1
              /\ SumOver(LAMBDA k : out[k].count, Len(out)) = Len(rows)

\* C15 witness: three profiles, all in cluster 1, on a model whose
\* temperature weight is 2.0: one entry, for cluster 1, with the three names
\* and the plain mean temperature of 19, 19 and 30 degrees
C15_Witness ==
    /\ call.op = "get_cluster_characteristics"
    /\ ~ret.raised
    /\ clustering_model.feature_weights[1] = 2 * Scale
    /\ Len(clustering_model.location_data.rows) = 3
    /\ Len(ret.clusters) = 1
    /\ ret.clusters[1].cluster_id = 1
    /\ ret.clusters[1].locations = <<1, 2, 3>>
    /\ ret.clusters[1].count = 3
    /\ 3 * ret.clusters[1].avg_features[1] <= 68 * Scale
    /\ 68 * Scale < 3 * (ret.clusters[1].avg_features[1] + 1)

\* KMeans on the table of m, standardized by m's scaler and weighted by m's
\* weights
Refit(m) ==
    KMeansFit(apply_weights(m.feature_weights,
                  ScalerTransform(m.scaler, FeatureMatrix(m.location_data))))

\* C16: a forced retrain keeps the weights that were on the shared model
\* (also when it fails), clusters with them and persists them; if a request
\* came just before, they are the weights of that request's preference
\* record.  The weights change only by a request or by loading an artifact,
\* so they are all 1.0 at a retrain only if neither came before.
C16_TrainingUsesCurrentWeights ==
    [][/\ (call'.op = "train_clustering_model" /\ call'.force_retrain)
              => clustering_model'.feature_weights = clustering_model.feature_weights
       /\ (call'.op = "train_clustering_model" /\ call'.force_retrain /\ ret'.value)
              => /\ artifact'.data.feature_weights = clustering_model.feature_weights
                 /\ clustering_model'.kmeans = Refit(clustering_model')
                 /\ artifact'.data.kmeans = clustering_model'.kmeans
                 /\ (call.op = "get_recommendations" /\ ~ret.raised /\ model_trained)
                        => artifact'.data.feature_weights = ClaimedWeights(call.preferences)
       /\ clustering_model'.feature_weights # clustering_model.feature_weights
              => \/ call'.op = "get_recommendations"
                 \/ /\ call'.op = "train_clustering_model"
                    /\ ~call'.force_retrain
                    /\ artifact.state = "complete"
                    /\ clustering_model'.feature_weights = artifact.data.feature_weights]_vars

\* C16 witness: a forced retrain over DataMain after a request that raised
\* weights has given other cluster assignments than the same retrain gives
\* with the weights all 1.0
C16_Witness ==
    /\ call.op = "train_clustering_model"
    /\ call.force_retrain
    /\ ret.value
    /\ df.rows = DataMain
    /\ clustering_model.feature_weights # <<Scale, Scale, Scale, Scale, Scale, Scale>>
    /\ artifact.data.feature_weights = clustering_model.feature_weights
    /\ clustering_model.cluster_labels_ # fit(NewModel, DataMain).model.cluster_labels_

====
